---------------------------- MODULE Spec2Model ----------------------------
(***************************************************************************)
(* Model of scrape_kegg.py: the organism lister (get_organism_list), the   *)
(* pathway extractor with its retry loop and page parser                   *)
(* (get_pathway_data_for_organism) and the orchestrator (main).            *)
(*                                                                         *)
(* Text is a sequence of tokens: the token " " is a run of whitespace,     *)
(* every other token is a run of non-whitespace characters.  "a" + "b" of  *)
(* the program is the concatenation \o of two such sequences.              *)
(*                                                                         *)
(* A page is the sequence of sibling nodes among which the <b> headers     *)
(* live.  A <ul> node holds its children in document order; the children   *)
(* of a nested <ul> are the siblings among which the <a> links live.       *)
(* Headers hold a single text; deeper nestings (a <b> inside a list, a     *)
(* <ul> inside a nested <ul>) are outside the page universe.               *)
(***************************************************************************)
EXTENDS Naturals, Sequences, FiniteSets

VARIABLES
    listing,            \* environment: what the listing URL serves (rows of cell texts)
    site,               \* environment: the pathway page served for each organism code
    pc,                 \* position of main
    organisms,          \* main: organisms (result of get_organism_list)
    idx,                \* main: position of the for loop in organisms
    attempt,            \* get_pathway_data_for_organism: the loop variable attempt
    phase,              \* retry machine of the current extraction
    pathway_data,       \* main: value returned by the current extraction
    src,                \* for each record of pathway_data, the nodes it came from
    all_pathway_data,   \* main: the accumulator
    output,             \* the output file: <<>> while absent, else its rows
    writes,             \* number of times the output file was written
    list_fetches,       \* requests.get calls on the listing URL
    listed,             \* outcome of the listing fetch: "no", "failed" or "ok"
    attempts,           \* requests.get calls of the current extraction
    fails,              \* failed requests.get calls of the current extraction
    retry_sleeps,       \* time.sleep(RETRY_DELAY) calls of the current extraction
    path_fetches,       \* requests.get calls on pathway pages, whole run
    pauses,             \* time.sleep(REQUEST_DELAY) calls, whole run
    history,            \* the extractions that have returned to main, in order
    last_io             \* the last blocking call made: a fetch or a sleep

vars == <<listing, site, pc, organisms, idx, attempt, phase, pathway_data, src,
          all_pathway_data, output, writes, list_fetches, listed, attempts, fails,
          retry_sleeps, path_fetches, pauses, history, last_io>>

---------------------------------------------------------------------------
(* Program constants *)

RETRY_COUNT == 3

BASE_URL == <<"https://www.kegg.jp">>

KO_PREFIX == <<"ko">>

NA_ID == <<"N/A">>

(* Bounds of the model *)

MaxPageSize == 5        \* nodes of a page of the exhaustive page universe
MaxChildren == 4        \* children of the list of a single-list page
MaxPairChildren == 2    \* children of each list of a two-list page
MaxRows == 3            \* rows of a listing page

---------------------------------------------------------------------------
(* Text *)

WS == " "

RECURSIVE LStrip(_)
LStrip(s) == IF s # <<>> /\ Head(s) = WS THEN LStrip(Tail(s)) ELSE s

RECURSIVE RStrip(_)
RStrip(s) ==
    IF s # <<>> /\ s[Len(s)] = WS THEN RStrip(SubSeq(s, 1, Len(s) - 1)) ELSE s

\* str.strip(), and get_text(strip=True) of a tag holding one text
Strip(s) == RStrip(LStrip(s))

Min(a, b) == IF a <= b THEN a ELSE b

---------------------------------------------------------------------------
(* Nodes of a parsed page *)

\* a NavigableString
TextNode(t) ==
    [kind |-> "text", text |-> t, has_href |-> FALSE, href |-> <<>>, kids |-> <<>>]

\* a <b> tag holding the text t (t = <<>>: an empty tag)
Bold(t) ==
    [kind |-> "b", text |-> t, has_href |-> FALSE, href |-> <<>>, kids |-> <<>>]

\* an <a> tag holding the text t, with href h
Link(t, h) ==
    [kind |-> "a", text |-> t, has_href |-> TRUE, href |-> h, kids |-> <<>>]

\* an <a> tag without an href attribute
Anchor(t) ==
    [kind |-> "a", text |-> t, has_href |-> FALSE, href |-> <<>>, kids |-> <<>>]

\* a <ul> tag with children ks
Ul(ks) ==
    [kind |-> "ul", text |-> <<>>, has_href |-> FALSE, href |-> <<>>, kids |-> ks]

\* any other tag (<br>, <li>, <p>, ...)
Elem ==
    [kind |-> "br", text |-> <<>>, has_href |-> FALSE, href |-> <<>>, kids |-> <<>>]

IsString(n) == n.kind = "text"

---------------------------------------------------------------------------
(* The pages the server may serve *)

HeaderNodes == { Bold(<<WS>>), Bold(<<WS, "Metabolism">>) }

ItemNodes ==
    { TextNode(<<"00010", WS>>), Link(<<"Glycolysis", WS>>, <<"/pathway/ko00010">>),
      Anchor(<<"Top">>), Elem }

ChildLeaves ==
    { TextNode(<<"Carbohydrate">>), TextNode(<<WS, "Energy", WS>>),
      TextNode(<<WS>>), Elem }

ItemSeqs(n) == [1..n -> ItemNodes]

\* the children a list may have that weigh w nodes in all
ChildNodes(w) ==
    IF w = 1 THEN ChildLeaves \cup { Ul(<<>>) }
    ELSE { Ul(s) : s \in ItemSeqs(w - 1) }

RECURSIVE ChildSeqs(_)
ChildSeqs(w) ==
    IF w = 0 THEN { <<>> }
    ELSE UNION { { <<c>> \o s : c \in ChildNodes(v), s \in ChildSeqs(w - v) } :
                 v \in 1..w }

TopNodes(w) ==
    IF w = 1 THEN HeaderNodes \cup { Elem, Ul(<<>>) }
    ELSE { Ul(s) : s \in ChildSeqs(w - 1) }

RECURSIVE TopSeqs(_)
TopSeqs(w) ==
    IF w = 0 THEN { <<>> }
    ELSE UNION { { <<c>> \o s : c \in TopNodes(v), s \in TopSeqs(w - v) } :
                 v \in 1..w }

\* every page of at most MaxPageSize nodes
SmallPages == UNION { TopSeqs(w) : w \in 0..MaxPageSize }

\* one header and its list, the list's children varied
ListChildren ==
    { TextNode(<<"Carbohydrate">>), TextNode(<<WS, "Energy", WS>>), TextNode(<<WS>>),
      Ul(<<TextNode(<<"00010", WS>>),
           Link(<<"Glycolysis", WS>>, <<"/pathway/ko00010">>)>>) }

SeqsUpTo(S, n) == UNION { [1..k -> S] : k \in 0..n }

ListPages ==
    { <<Bold(<<"Metabolism">>), Ul(cs)>> : cs \in SeqsUpTo(ListChildren, MaxChildren) }

\* two headers, each with its own list
PairPages ==
    { <<Bold(<<"Metabolism">>), Ul(c1), Bold(<<"Genetic">>), Ul(c2)>> :
        c1 \in SeqsUpTo(ListChildren, MaxPairChildren),
        c2 \in SeqsUpTo(ListChildren, MaxPairChildren) }

DeepPages == SmallPages \cup ListPages \cup PairPages

---------------------------------------------------------------------------
(* get_pathway_data_for_organism: the parsing of a fetched page *)

\* variant: the header text taken as it stands, not stripped
CurrentL1Raw(l1_tag) == l1_tag.text

\* l1_tag.get_text(strip=True)
CurrentL1(l1_tag) == Strip(l1_tag.text)

\* l1_tag.find_next_sibling('ul'): the position of the first <ul> among the
\* siblings after position h, 0 when there is none
FindNextSiblingUl(page, h) ==
    IF \E j \in (h + 1)..Len(page) : page[j].kind = "ul"
    THEN CHOOSE j \in (h + 1)..Len(page) :
            /\ page[j].kind = "ul"
            /\ \A m \in (h + 1)..(j - 1) : page[m].kind # "ul"
    ELSE 0

\* variant: every text node sets current_l2, a whitespace one too
NextL2AnyText(element, current_l2) ==
    IF IsString(element) THEN Strip(element.text) ELSE current_l2

\* the value of current_l2 after the child element of outer_ul
NextL2(element, current_l2) ==
    IF IsString(element) /\ Strip(element.text) # <<>>
    THEN Strip(element.text)
    ELSE current_l2

\* a_tag.previous_sibling and the choice of kegg_id (i: position of a_tag
\* among its siblings)
KeggId(siblings, i) ==
    IF i > 1 /\ IsString(siblings[i - 1])
    THEN Strip(siblings[i - 1].text)
    ELSE NA_ID

\* variant: the href is taken as the url, without the base
PathwayRecordBareHref(latin_name, current_l1, current_l2, kegg_id, a_tag) ==
    [organism_latin_name |-> latin_name,
     level1_category     |-> current_l1,
     level2_category     |-> current_l2,
     kegg_id             |-> KO_PREFIX \o kegg_id,
     pathway_name        |-> Strip(a_tag.text),
     url                 |-> a_tag.href]

\* the dictionary appended to pathways
PathwayRecord(latin_name, current_l1, current_l2, kegg_id, a_tag) ==
    [organism_latin_name |-> latin_name,
     level1_category     |-> current_l1,
     level2_category     |-> current_l2,
     kegg_id             |-> KO_PREFIX \o kegg_id,
     pathway_name        |-> Strip(a_tag.text),
     url                 |-> BASE_URL \o a_tag.href]

\* variant: the parse goes on from the records collected before
PathwaysSoFar ==
    [raised |-> FALSE, pathways |-> all_pathway_data,
     src |-> [k \in DOMAIN all_pathway_data |-> [h |-> 0, j |-> 0, c |-> 0, i |-> 0]]]

\* the state of a parse: the pathways collected, where each came from
\* (header h, list j, child c, link i), and whether a KeyError was raised
NoPathways == [raised |-> FALSE, pathways |-> <<>>, src |-> <<>>]

\* for a_tag in element.find_all('a'), from sibling i on
RECURSIVE LinkLoop(_, _, _, _)
LinkLoop(siblings, i, ctx, acc) ==
    IF acc.raised \/ i > Len(siblings) THEN acc
    ELSE IF siblings[i].kind # "a" THEN LinkLoop(siblings, i + 1, ctx, acc)
    ELSE IF ~siblings[i].has_href THEN [acc EXCEPT !.raised = TRUE]
    ELSE LinkLoop(siblings, i + 1, ctx,
            [acc EXCEPT
               !.pathways = Append(@, PathwayRecord(ctx.latin_name, ctx.l1, ctx.l2,
                                                    KeggId(siblings, i), siblings[i])),
               !.src = Append(@, [h |-> ctx.h, j |-> ctx.j, c |-> ctx.c, i |-> i])])

\* for element in outer_ul.children, from child c on
RECURSIVE ChildLoop(_, _, _, _)
ChildLoop(children, c, ctx, acc) ==
    IF acc.raised \/ c > Len(children) THEN acc
    ELSE IF IsString(children[c])
         THEN ChildLoop(children, c + 1,
                        [ctx EXCEPT !.l2 = NextL2(children[c], ctx.l2)], acc)
    ELSE IF children[c].kind = "ul"
         THEN ChildLoop(children, c + 1, ctx,
                        LinkLoop(children[c].kids, 1, [ctx EXCEPT !.c = c], acc))
    ELSE ChildLoop(children, c + 1, ctx, acc)

\* for l1_tag in l1_tags, from node h on
RECURSIVE HeaderLoop(_, _, _, _)
HeaderLoop(page, h, latin_name, acc) ==
    IF acc.raised \/ h > Len(page) THEN acc
    ELSE IF page[h].kind # "b" THEN HeaderLoop(page, h + 1, latin_name, acc)
    ELSE LET outer_ul == FindNextSiblingUl(page, h) IN
         IF outer_ul = 0 THEN HeaderLoop(page, h + 1, latin_name, acc)
         ELSE HeaderLoop(page, h + 1, latin_name,
                ChildLoop(page[outer_ul].kids, 1,
                          [latin_name |-> latin_name, l1 |-> CurrentL1(page[h]),
                           l2 |-> <<>>, h |-> h, j |-> outer_ul, c |-> 0],
                          acc))

ParsePage(page, latin_name) == HeaderLoop(page, 1, latin_name, NoPathways)

---------------------------------------------------------------------------
(* get_organism_list: the parsing of the listing page *)

\* variant: the code and the name are taken one cell too early
OrganismOfFirstCells(cells) == [code |-> Strip(cells[1]), name |-> Strip(cells[2])]

\* the dictionary appended to organisms for a row of at least three <td>
OrganismOf(cells) == [code |-> Strip(cells[2]), name |-> Strip(cells[3])]

\* the rows that contribute an organism
HasOrganism(cells) == Len(cells) >= 3

\* for row in table_rows, from row r on
RECURSIVE RowLoop(_, _, _)
RowLoop(rows, r, acc) ==
    IF r > Len(rows) THEN acc
    ELSE IF HasOrganism(rows[r]) THEN RowLoop(rows, r + 1, Append(acc, OrganismOf(rows[r])))
    ELSE RowLoop(rows, r + 1, acc)

OrganismsOf(rows) == IF rows = <<>> THEN <<>> ELSE RowLoop(rows, 1, <<>>)

---------------------------------------------------------------------------
(* The environments: a listing page and a pathway page per organism code *)

Codes == { <<"ath">>, <<"osa">> }

HeaderRow == << <<"Code">>, <<"Name">> >>

AthRow == << <<"T00041">>, <<WS, "ath">>, <<"Arabidopsis", WS, "thaliana">> >>

OsaRow == << <<"T01015">>, <<"osa">>, <<"Oryza", WS, "sativa", WS>>, <<"RefSeq">> >>

ListingPages == SeqsUpTo({HeaderRow, AthRow, OsaRow}, MaxRows)

\* the scenario of the specification's section 8
EndToEndPage ==
    <<Bold(<<"Metabolism">>),
      Ul(<<TextNode(<<"Carbohydrate", WS, "metabolism">>),
           Ul(<<TextNode(<<"00010">>), Link(<<"Glycolysis">>, <<"/pathway/ko00010">>)>>)>>)>>

\* a page without any header: no pathway
NoPathwayPage == <<Elem>>

\* a page whose link carries no href
AnchorPage ==
    <<Bold(<<"Metabolism">>), Ul(<<Ul(<<TextNode(<<"00020">>), Anchor(<<"Citrate">>)>>)>>)>>

\* two pathways, the second without an identifier
TwoPathwayPage ==
    <<Bold(<<WS, "Genetic", WS>>),
      Ul(<<TextNode(<<"Translation">>),
           Ul(<<TextNode(<<"03010", WS>>), Link(<<"Ribosome">>, <<"/pathway/ko03010">>),
                Elem, Link(<<"Spliceosome">>, <<"/pathway/ko03040">>)>>)>>)>>

ScenarioPages == { EndToEndPage, NoPathwayPage, AnchorPage, TwoPathwayPage }

\* several organisms, each served a scenario page
WideEnvs ==
    { [listing |-> l, site |-> s] : l \in ListingPages, s \in [Codes -> ScenarioPages] }

\* one organism, served any page of the page universe
DeepEnvs ==
    { [listing |-> <<AthRow>>,
       site |-> [c \in Codes |-> IF c = <<"ath">> THEN p ELSE NoPathwayPage]] :
      p \in DeepPages }

Envs == WideEnvs \cup DeepEnvs

---------------------------------------------------------------------------
(* The program *)

Terminal == { "aborted", "warned", "written", "crashed" }

Init ==
    /\ \E e \in Envs : listing = e.listing /\ site = e.site
    /\ pc = "start"
    /\ organisms = <<>>
    /\ idx = 0
    /\ attempt = 0
    /\ phase = "IDLE"
    /\ pathway_data = <<>>
    /\ src = <<>>
    /\ all_pathway_data = <<>>
    /\ output = <<>>
    /\ writes = 0
    /\ list_fetches = 0
    /\ listed = "no"
    /\ attempts = 0
    /\ fails = 0
    /\ retry_sleeps = 0
    /\ path_fetches = 0
    /\ pauses = 0
    /\ history = <<>>
    /\ last_io = "none"

\* main after get_organism_list has returned orgs: the emptiness check, and
\* the entry of the for loop and of the first extraction
EnterLoop(orgs) ==
    /\ organisms' = orgs
    /\ IF orgs = <<>>
       THEN /\ pc' = "aborted"
            /\ UNCHANGED <<idx, phase>>
       ELSE /\ pc' = "fetch"
            /\ idx' = 1
            /\ phase' = "ATTEMPTING"
    /\ UNCHANGED <<listing, site, attempt, pathway_data, src, all_pathway_data, output,
                   writes, attempts, fails, retry_sleeps, path_fetches, pauses, history>>

\* variant: a failed listing fetch is tried again
GetOrganismListRetries ==
    /\ pc = "start"
    /\ list_fetches' = list_fetches + 1
    /\ listed' = "failed"
    /\ last_io' = "list_fetch"
    /\ UNCHANGED <<listing, site, pc, organisms, idx, attempt, phase, pathway_data, src,
                   all_pathway_data, output, writes, attempts, fails, retry_sleeps,
                   path_fetches, pauses, history>>

\* get_organism_list: requests.get or raise_for_status raises a RequestException
GetOrganismListFails ==
    /\ pc = "start"
    /\ list_fetches' = list_fetches + 1
    /\ listed' = "failed"
    /\ last_io' = "list_fetch"
    /\ EnterLoop(<<>>)

\* get_organism_list: requests.get is called without a timeout, so against a
\* server that accepts the connection and never responds the call does not
\* return and no exception is raised
GetOrganismListHangs ==
    /\ pc = "start"
    /\ pc' = "blocked"
    /\ list_fetches' = list_fetches + 1
    /\ listed' = "hung"
    /\ last_io' = "list_fetch"
    /\ UNCHANGED <<listing, site, organisms, idx, attempt, phase, pathway_data, src,
                   all_pathway_data, output, writes, attempts, fails, retry_sleeps,
                   path_fetches, pauses, history>>

\* get_organism_list: the listing page is fetched and parsed
GetOrganismListOk ==
    /\ pc = "start"
    /\ list_fetches' = list_fetches + 1
    /\ listed' = "ok"
    /\ last_io' = "list_fetch"
    /\ EnterLoop(OrganismsOf(listing))

\* variant: one iteration too many
MoreAttemptsOffByOne(a) == a < RETRY_COUNT

\* for attempt in range(RETRY_COUNT): is there an iteration after this one
MoreAttempts(a) == a + 1 < RETRY_COUNT

\* variant: a sleep follows every failed attempt, the last one included
SleepsAfterEvery(a) == a < RETRY_COUNT

\* variant: no sleep between the attempts
SleepsNever(a) == FALSE

\* the except clause: whether the failed attempt is followed by a sleep
SleepsAfter(a) == a < RETRY_COUNT - 1

\* the for loop of the extraction after the iteration of attempt: the next
\* iteration, or the return [] after the loop
NextIteration ==
    IF MoreAttempts(attempt)
    THEN /\ pc' = "fetch"
         /\ attempt' = attempt + 1
         /\ UNCHANGED <<phase, pathway_data, src>>
    ELSE /\ pc' = "returned"
         /\ phase' = "FAILED"
         /\ pathway_data' = <<>>
         /\ src' = <<>>
         /\ UNCHANGED attempt

\* get_pathway_data_for_organism: requests.get or raise_for_status raises a
\* RequestException (connection error, timeout, HTTP error status)
FetchFails ==
    /\ pc = "fetch"
    /\ \E e \in {"ConnectionError", "Timeout", "HTTPError"} : TRUE
    /\ attempts' = attempts + 1
    /\ fails' = fails + 1
    /\ path_fetches' = path_fetches + 1
    /\ IF SleepsAfter(attempt)
       THEN /\ pc' = "sleep"
            /\ UNCHANGED <<attempt, phase, pathway_data, src>>
       ELSE NextIteration
    /\ last_io' = "path_fetch"
    /\ UNCHANGED <<listing, site, organisms, idx, all_pathway_data, output, writes,
                   list_fetches, listed, retry_sleeps, pauses, history>>

\* time.sleep(RETRY_DELAY), then the next iteration of the attempt loop
RetrySleep ==
    /\ pc = "sleep"
    /\ retry_sleeps' = retry_sleeps + 1
    /\ NextIteration
    /\ last_io' = "retry_sleep"
    /\ UNCHANGED <<listing, site, organisms, idx, all_pathway_data, output, writes,
                   list_fetches, listed, attempts, fails, path_fetches, pauses, history>>

\* get_pathway_data_for_organism: the page is fetched and parsed; a KeyError
\* of the parsing is not caught by the except clause nor by main
FetchOk ==
    /\ pc = "fetch"
    /\ attempts' = attempts + 1
    /\ path_fetches' = path_fetches + 1
    /\ phase' = "PARSING"
    /\ LET organism == organisms[idx]
           parsed == ParsePage(site[organism.code], organism.name)
       IN IF parsed.raised
          THEN /\ pc' = "crashed"
               /\ UNCHANGED <<pathway_data, src>>
          ELSE /\ pc' = "returned"
               /\ pathway_data' = parsed.pathways
               /\ src' = parsed.src
    /\ last_io' = "path_fetch"
    /\ UNCHANGED <<listing, site, organisms, idx, attempt, all_pathway_data, output,
                   writes, list_fetches, listed, fails, retry_sleeps, pauses, history>>

\* main: the rest of the loop body after the extraction has returned, and
\* the entry of the next extraction or the exit of the loop
Collect ==
    /\ pc = "returned"
    /\ all_pathway_data' = IF pathway_data # <<>>
                           THEN all_pathway_data \o pathway_data
                           ELSE all_pathway_data
    /\ pauses' = pauses + 1
    /\ last_io' = "pause"
    /\ history' = Append(history, [pos |-> idx, organism |-> organisms[idx],
                                   phase |-> phase, records |-> pathway_data])
    /\ idx' = idx + 1
    /\ pc' = IF idx < Len(organisms) THEN "fetch" ELSE "finish"
    /\ phase' = IF idx < Len(organisms) THEN "ATTEMPTING" ELSE "IDLE"
    /\ attempt' = 0
    /\ attempts' = 0
    /\ fails' = 0
    /\ retry_sleeps' = 0
    /\ pathway_data' = <<>>
    /\ src' = <<>>
    /\ UNCHANGED <<listing, site, organisms, output, writes, list_fetches,
                   listed, path_fetches>>

\* a row of the output file, in the column order of main
RowOf(rec) ==
    <<rec.organism_latin_name, rec.level1_category, rec.level2_category,
      rec.kegg_id, rec.pathway_name, rec.url>>

\* main after the loop: the warning, or df.to_csv
Finish ==
    /\ pc = "finish"
    /\ IF all_pathway_data = <<>>
       THEN /\ pc' = "warned"
            /\ UNCHANGED <<output, writes>>
       ELSE /\ pc' = "written"
            /\ output' = [k \in 1..Len(all_pathway_data) |-> RowOf(all_pathway_data[k])]
            /\ writes' = writes + 1
    /\ UNCHANGED <<listing, site, organisms, idx, attempt, phase, pathway_data, src,
                   all_pathway_data, list_fetches, listed, attempts, fails,
                   retry_sleeps, path_fetches, pauses, history, last_io>>

Next ==
    \/ GetOrganismListFails
    \/ GetOrganismListHangs
    \/ GetOrganismListOk
    \/ FetchFails
    \/ RetrySleep
    \/ FetchOk
    \/ Collect
    \/ Finish

Spec == Init /\ [][Next]_vars

---------------------------------------------------------------------------
(* Vocabulary of the properties *)

\* the page of the organism being extracted
CurPage == site[organisms[idx].code]

\* an extraction is under way or has just ended
InExtraction == pc \in {"fetch", "sleep", "returned", "crashed"}

\* the text t without its leading and trailing whitespace, stated by
\* positions rather than computed by stripping
Trimmed(t) ==
    LET solid == { n \in 1..Len(t) : t[n] # WS } IN
    IF solid = {} THEN <<>>
    ELSE LET first == CHOOSE n \in solid : \A m \in solid : n <= m
             last  == CHOOSE n \in solid : \A m \in solid : m <= n
         IN  SubSeq(t, first, last)

\* a text node with non-whitespace content
IsLabel(n) == IsString(n) /\ \E m \in 1..Len(n.text) : n.text[m] # WS

\* the links inside the nested lists of the list at position j of page
LinksOf(page, j) ==
    UNION { { <<c, i>> : i \in { n \in 1..Len(page[j].kids[c].kids) :
                                  page[j].kids[c].kids[n].kind = "a" } } :
            c \in { m \in 1..Len(page[j].kids) : page[j].kids[m].kind = "ul" } }

\* the records of the organisms processed so far, in the order processed
RECURSIVE Collected(_)
Collected(h) ==
    IF h = <<>> THEN <<>>
    ELSE Collected(SubSeq(h, 1, Len(h) - 1)) \o h[Len(h)].records

---------------------------------------------------------------------------
(* C1: retry bound.  An extraction whose fetch fails k times and then      *)
(* succeeds reaches the parsing after exactly min(k+1, RETRY_COUNT)        *)
(* fetches; one whose fetch fails RETRY_COUNT times returns the empty      *)
(* sequence after exactly RETRY_COUNT fetches.  While it is attempting,    *)
(* every fetch so far has failed and fewer than RETRY_COUNT have; no fetch *)
(* follows a successful one or the RETRY_COUNT-th failed one.              *)
RetryBound ==
    /\ phase = "ATTEMPTING" => attempts = fails /\ fails < RETRY_COUNT
    /\ phase = "PARSING" =>
          /\ fails < RETRY_COUNT
          /\ attempts = Min(fails + 1, RETRY_COUNT)
          /\ attempts = fails + 1
          /\ pc \in {"returned", "crashed"}
    /\ phase = "FAILED" =>
          /\ fails = RETRY_COUNT
          /\ attempts = RETRY_COUNT
          /\ pathway_data = <<>>
          /\ pc = "returned"
    /\ phase = "IDLE" => attempts = 0

\* the fetch succeeds at the last attempt allowed
RetryBoundWitness ==
    pc = "returned" /\ phase = "PARSING" /\ fails = RETRY_COUNT - 1 /\ pathway_data # <<>>

(* C2: the extraction never raises: no error of the extraction reaches     *)
(* main, whatever the fetch outcomes and the page.                         *)
ExtractNeverRaises == pc # "crashed"

(* C3: every record emitted has a non-empty level1.                        *)
Level1NonEmpty ==
    \A k \in DOMAIN pathway_data : pathway_data[k].level1_category # <<>>

(* C3, amended: every record emitted comes from a bold header of the page, *)
(* its level1 is the trimmed text of that header, and it is empty exactly  *)
(* when the header holds no non-whitespace text.                           *)
Level1IsHeaderText ==
    pc = "returned" =>
      \A k \in DOMAIN pathway_data :
        LET header == CurPage[src[k].h] IN
        /\ header.kind = "b"
        /\ pathway_data[k].level1_category = Trimmed(header.text)
        /\ pathway_data[k].level1_category = <<>> <=>
              \A m \in 1..Len(header.text) : header.text[m] = WS

\* a record emitted under a header that holds only whitespace
Level1Witness ==
    /\ pc = "returned"
    /\ \E k \in DOMAIN pathway_data :
          /\ pathway_data[k].level1_category = <<>>
          /\ CurPage[src[k].h].text = <<WS>>

(* C4: subcategory carry-over.  The level2 of every record is the trimmed  *)
(* text of the last text node with non-whitespace content among the        *)
(* children of the header's list that precede the nested list of the link, *)
(* and is empty when there is none; nothing is carried over from the list  *)
(* of another header.                                                      *)
Level2CarryOver ==
    pc = "returned" =>
      \A k \in DOMAIN pathway_data :
        LET children == CurPage[src[k].j].kids
            labels == { m \in 1..(src[k].c - 1) : IsLabel(children[m]) }
        IN
        /\ children[src[k].c].kind = "ul"
        /\ children[src[k].c].kids[src[k].i].kind = "a"
        /\ pathway_data[k].level2_category =
              IF labels = {} THEN <<>>
              ELSE Trimmed(children[CHOOSE m \in labels : \A n \in labels : n <= m].text)

\* the list [text A, nested list with L1, text B, nested list with L2]
Level2Witness ==
    /\ pc = "returned"
    /\ Len(CurPage) = 2
    /\ LET children == CurPage[2].kids IN
       /\ Len(children) = 4
       /\ IsLabel(children[1]) /\ children[2].kind = "ul"
       /\ IsLabel(children[3]) /\ children[4].kind = "ul"
       /\ children[1] # children[3]
    /\ Len(pathway_data) = 2
    /\ pathway_data[1].level2_category = <<"Carbohydrate">>
    /\ pathway_data[2].level2_category = <<"Energy">>

(* C5: header skip.  Every record of a header comes from the list that is  *)
(* the sibling immediately after the header.                               *)
HeaderSkip ==
    pc = "returned" => \A k \in DOMAIN pathway_data : src[k].j = src[k].h + 1

(* C6: one record per leaf entry.  No link of the page is emitted twice    *)
(* within one extraction.                                                  *)
OneRecordPerLink ==
    pc = "returned" =>
      \A k1, k2 \in DOMAIN pathway_data :
        (src[k1].j = src[k2].j /\ src[k1].c = src[k2].c /\ src[k1].i = src[k2].i)
          => k1 = k2

(* C7: pathway id.  Once the page is fetched, every record's pathwayId     *)
(* begins with "ko", and every link inside a nested list of a header's     *)
(* list has exactly one record: its pathwayId is "ko" + "N/A" when the     *)
(* link has no text node right before it, else "ko" + the trimmed text of  *)
(* that text node.                                                         *)
PathwayIdOfEveryLink ==
    (phase = "PARSING" /\ pc \in {"returned", "crashed"}) =>
      /\ \A k \in DOMAIN pathway_data :
            SubSeq(pathway_data[k].kegg_id, 1, 1) = KO_PREFIX
      /\ \A j \in 2..Len(CurPage) :
            (CurPage[j].kind = "ul" /\ CurPage[j - 1].kind = "b") =>
              \A l \in LinksOf(CurPage, j) :
                LET siblings == CurPage[j].kids[l[1]].kids
                    of == { k \in DOMAIN pathway_data :
                              src[k].j = j /\ src[k].c = l[1] /\ src[k].i = l[2] }
                IN
                /\ Cardinality(of) = 1
                /\ \A k \in of :
                     pathway_data[k].kegg_id =
                        IF l[2] > 1 /\ siblings[l[2] - 1].kind = "text"
                        THEN KO_PREFIX \o Trimmed(siblings[l[2] - 1].text)
                        ELSE KO_PREFIX \o NA_ID

(* C8: zero organisms is fatal and not retried.  When the listing fetch    *)
(* fails or no row of the listing has three cells, get_organism_list       *)
(* returns the empty sequence, the listing has been fetched exactly once   *)
(* and main ends without a pathway fetch, a pause or an output write.      *)
ZeroOrganismsFatal ==
    /\ list_fetches = (IF pc = "start" THEN 0 ELSE 1)
    /\ (listed = "failed" \/ (listed = "ok" /\ \A r \in 1..Len(listing) : Len(listing[r]) < 3))
          => /\ organisms = <<>>
             /\ pc = "aborted"
             /\ path_fetches = 0
             /\ pauses = 0
             /\ writes = 0
             /\ output = <<>>

\* the listing fetch has failed
ZeroOrganismsWitness ==
    pc = "aborted" /\ listed = "failed" /\ \E r \in 1..Len(listing) : Len(listing[r]) >= 3

(* C9: the output is all or nothing.  The file is written at most once,    *)
(* only after every listed organism has been processed, with one row per   *)
(* accumulated record in order; no output exists before; and a run ends    *)
(* with the file written if and only if its accumulator is non-empty.      *)
OutputAllOrNothing ==
    /\ writes <= 1
    /\ writes = 0 => output = <<>>
    /\ writes = 1 =>
          /\ pc = "written"
          /\ idx = Len(organisms) + 1
          /\ Len(output) = Len(all_pathway_data)
          /\ \A k \in DOMAIN output : output[k] = RowOf(all_pathway_data[k])
    /\ pc \in Terminal => (writes = 1 <=> all_pathway_data # <<>>)

(* C10: pacing.  Before the fetches of the organism at position idx there  *)
(* has been exactly one pause for each organism before it, and a run ends  *)
(* with as many pauses as organisms listed.                                *)
Pacing ==
    /\ InExtraction => pauses = idx - 1
    /\ pc \in Terminal => pauses = Len(organisms)

(* C11: failure isolation.  An extraction that exhausts its retries gives  *)
(* the empty result; after each organism the accumulator is the            *)
(* concatenation of the results of the organisms processed so far, in      *)
(* listed order (so an organism with an empty result leaves it unchanged   *)
(* and nothing collected earlier is removed or altered); and when the run  *)
(* has ended, every organism listed after one whose retries were exhausted *)
(* has had its extraction.                                                 *)
FailureIsolation ==
    /\ \A k \in DOMAIN history :
          /\ history[k].pos = k
          /\ history[k].organism = organisms[k]
          /\ history[k].phase = "FAILED" => history[k].records = <<>>
    /\ all_pathway_data = Collected(history)
    /\ pc \in Terminal =>
          \A k \in DOMAIN history :
            history[k].phase = "FAILED" => \A j \in (k + 1)..Len(organisms) : j <= idx

(* C12: every network call is bounded by a request timeout: no fetch waits *)
(* for ever on a server that never responds.                               *)
EveryFetchTimesOut == pc # "blocked"

(* C13: lister extraction.  When the listing fetch has succeeded, the      *)
(* organisms returned are, in row order, one for each row with at least    *)
(* three cells (code: the trimmed text of the second cell, name: the       *)
(* trimmed text of the third cell) and none for the other rows; they are   *)
(* at most as many as the rows.                                            *)
ListerExtraction ==
    listed = "ok" =>
      LET good == { r \in 1..Len(listing) : Len(listing[r]) >= 3 }
          row(k) == CHOOSE r \in good : Cardinality({ q \in good : q < r }) = k - 1
      IN
      /\ Len(organisms) = Cardinality(good)
      /\ Len(organisms) <= Len(listing)
      /\ \A k \in 1..Len(organisms) :
            /\ organisms[k].code = Trimmed(listing[row(k)][2])
            /\ organisms[k].name = Trimmed(listing[row(k)][3])

\* a row of two cells between two rows of organisms
ListerWitness ==
    /\ listed = "ok"
    /\ listing = <<OsaRow, HeaderRow, AthRow>>
    /\ Len(organisms) = 2
    /\ organisms[2].code = <<"ath">>

(* C14: record field mapping.  Every record emitted while extracting an    *)
(* organism carries the display name of that organism, the trimmed text of *)
(* its header as level1, the trimmed text of its link as pathway name and  *)
(* the base URL followed by the link's href as url; the records collected  *)
(* keep the name of the organism they were extracted for; and the run over *)
(* the single organism (ath, Arabidopsis thaliana) with the page of the    *)
(* end-to-end scenario writes exactly the one row of the scenario.         *)
RecordFieldMapping ==
    /\ pc = "returned" =>
          \A k \in DOMAIN pathway_data :
            LET a_tag == CurPage[src[k].j].kids[src[k].c].kids[src[k].i] IN
            /\ pathway_data[k].organism_latin_name = organisms[idx].name
            /\ pathway_data[k].level1_category = Trimmed(CurPage[src[k].h].text)
            /\ pathway_data[k].pathway_name = Trimmed(a_tag.text)
            /\ pathway_data[k].url = BASE_URL \o a_tag.href
    /\ \A k \in DOMAIN history : \A n \in DOMAIN history[k].records :
          history[k].records[n].organism_latin_name = history[k].organism.name
    /\ (pc = "written" /\ listing = <<AthRow>> /\ site[<<"ath">>] = EndToEndPage) =>
          output = << << <<"Arabidopsis", WS, "thaliana">>,
                         <<"Metabolism">>,
                         <<"Carbohydrate", WS, "metabolism">>,
                         <<"ko", "00010">>,
                         <<"Glycolysis">>,
                         <<"https://www.kegg.jp", "/pathway/ko00010">> >> >>

\* the end-to-end scenario has been run and its file written
RecordFieldWitness ==
    /\ pc = "written"
    /\ listing = <<AthRow>>
    /\ site[<<"ath">>] = EndToEndPage
    /\ Len(output) = 1

RetrySleepPlacement ==
    /\ pc = "fetch" => retry_sleeps = attempts
    /\ pc = "sleep" => retry_sleeps + 1 = attempts /\ attempts < RETRY_COUNT
    /\ pc \in {"returned", "crashed"} => retry_sleeps + 1 = attempts

\* the retries are exhausted
RetrySleepWitness ==
    pc = "returned" /\ phase = "FAILED" /\ retry_sleeps = RETRY_COUNT - 1

(* C17: any two consecutive fetches, the listing fetch included, are       *)
(* separated by at least one pause.                                        *)
PauseBetweenFetches ==
    pc = "fetch" => last_io \in {"retry_sleep", "pause"}

(* C17, amended: any two consecutive pathway fetches are separated by a    *)
(* retry sleep or an inter-request pause; the first pathway fetch follows  *)
(* the listing fetch directly.                                             *)
PauseBetweenPathwayFetches ==
    pc = "fetch" =>
      IF path_fetches = 0
      THEN last_io = "list_fetch" /\ pauses = 0 /\ retry_sleeps = 0
      ELSE last_io \in {"retry_sleep", "pause"}

\* the second organism is about to be fetched after the pause that
\* follows the first, whose retries were exhausted
PauseWitness ==
    pc = "fetch" /\ idx = 2 /\ last_io = "pause" /\ path_fetches = RETRY_COUNT

(* C18: bounded work.  A run issues one listing fetch and at most          *)
(* RETRY_COUNT pathway fetches per organism listed; when it has ended it   *)
(* has issued at least one pathway fetch per organism and it is in exactly *)
(* one of three outcomes: aborted on an empty listing, warned on an empty  *)
(* accumulator, or output written.                                         *)
BoundedRun ==
    /\ list_fetches <= 1
    /\ path_fetches <= Len(organisms) * RETRY_COUNT
    /\ list_fetches + path_fetches <= 1 + Len(organisms) * RETRY_COUNT
    /\ pc \in Terminal =>
          /\ list_fetches = 1
          /\ Len(organisms) <= path_fetches
          /\ pc = "aborted" <=> organisms = <<>>
          /\ pc = "warned" <=> (organisms # <<>> /\ all_pathway_data = <<>>)
          /\ pc = "written" <=> all_pathway_data # <<>>

====
